---- MODULE Spec2Model ----
(***************************************************************************)
(* Federated averaging for a single-layer logistic regression model, as    *)
(* implemented in Federated_Genomic/src/tff: the pub/sub round protocol of *)
(* server.py and client.py, and the aggregators of aggregate_weights.py,   *)
(* server.py and demo_federated_learning.py.                               *)
(*                                                                         *)
(* Numbers.  Python floats are modelled as fixed-point integers: the value *)
(* v stands for v / Scale, and every product or quotient is rounded to the *)
(* nearest unit (as IEEE arithmetic rounds to the nearest double).  Sample *)
(* counts and round numbers are plain integers.                            *)
(***************************************************************************)
EXTENDS Integers, Sequences, FiniteSets, TLC

VARIABLES
    \* ---- aggregate_weights.py / server.py / demo: one aggregator call
    aggInput,     \* the updates handed to federated_average
    aggImpl,      \* which federated_average ran ("none" before the call)
    aggResult,    \* what the call returned or raised
    aggSaved,     \* aggregate_weights.main: the global model document written
    \* ---- client.py / demo: one train_local call
    trainInput,   \* the arguments: [wts, rows, labels]
    trainImpl,    \* which train_local ran ("none" before the call)
    trainResult,  \* what the call returned or raised
    trainUploaded, \* train_node.py: the weights document uploaded to the bucket
    \* ---- server.py main()
    phase,        \* where main() stands
    round_num,    \* the for loop's round_num (0 before the loop)
    weights,      \* the global model [w, b]
    updates,      \* the updates collected for round_num
    error,        \* the exception that ended main(), "none" otherwise
    aggregations, \* history: how many times line 54 replaced the global model
    discarded,    \* history: how many pulled messages were acknowledged unused
    \* ---- Pub/Sub
    subNode,      \* per node, the broadcasts outstanding on its subscription
    subHub,       \* the updates outstanding on sub-hub
    redeliveries, \* deliveries so far of a message that was delivered before
    \* ---- client.py main(), one per node
    X, y,         \* the rows and labels load_local_data returned
    listening,    \* whether the streaming pull is still open
    attempts      \* history: per node and round tag, the calls of train_local
                  \* and the updates published

aggVars == <<aggInput, aggImpl, aggResult, aggSaved>>

trainVars == <<trainInput, trainImpl, trainResult, trainUploaded>>

serverVars == <<phase, round_num, weights, updates, error, aggregations, discarded>>

clientVars == <<X, y, listening, attempts>>

protoVars == <<serverVars, subNode, subHub, redeliveries, clientVars>>

vars == <<aggVars, trainVars, protoVars>>

\* No aggregator call is under way (the protocol's specifications).
AggIdle ==
    /\ aggInput = <<>>
    /\ aggImpl = "off"
    /\ aggResult = [kind |-> "pending"]
    /\ aggSaved = [kind |-> "absent"]

\* No trainer call is under way.
TrainIdle ==
    /\ trainInput = <<>>
    /\ trainImpl = "off"
    /\ trainResult = [kind |-> "pending"]
    /\ trainUploaded = [kind |-> "absent"]

\* No session is under way (the aggregators' specification).
ProtoIdle ==
    /\ phase = "OFF" /\ round_num = 0 /\ weights = <<>> /\ updates = <<>>
    /\ error = "none" /\ aggregations = 0 /\ discarded = 0
    /\ subNode = <<>> /\ subHub = {} /\ redeliveries = 0
    /\ X = <<>> /\ y = <<>> /\ listening = <<>> /\ attempts = <<>>

----------------------------------------------------------------------------
(* Fixed-point arithmetic *)

Scale == 10^3

Abs(a) == IF a < 0 THEN -a ELSE a

Min(a, b) == IF a <= b THEN a ELSE b

Max(a, b) == IF a >= b THEN a ELSE b

\* a / b for b > 0, rounded to the nearest integer, halves away from zero.
RoundDiv(a, b) ==
    IF a >= 0 THEN (2 * a + b) \div (2 * b)
              ELSE -((2 * (-a) + b) \div (2 * b))

\* The float product a * b of two fixed-point values.
FMul(a, b) == RoundDiv(a * b, Scale)

\* The float quotient a / n of a fixed-point value by a positive count.
FDivInt(a, n) == RoundDiv(a, n)

\* The float quotient n / m of two counts (m > 0), as a fixed-point value.
IntDiv(n, m) == RoundDiv(n * Scale, m)

\* s[lo] + ... + s[hi], the range halved so that long sums stay shallow
RECURSIVE SumRange(_, _, _)
SumRange(s, lo, hi) ==
    IF lo > hi THEN 0
    ELSE IF lo = hi THEN s[lo]
    ELSE SumRange(s, lo, (lo + hi) \div 2) + SumRange(s, ((lo + hi) \div 2) + 1, hi)

SumSeq(s) == SumRange(s, 1, Len(s))

----------------------------------------------------------------------------
(* Outcomes of a call *)

Return(v) == [kind |-> "return", value |-> v]

ReturnNone == [kind |-> "None"]

Raise(e) == [kind |-> "raise", exc |-> e]

NotCalled == [kind |-> "pending"]

----------------------------------------------------------------------------
(* server.py: federated_average(updates)                                   *)
(* updates: a list of {node_id, weights: [w, b], n_samples, round}; the     *)
(* list [w, b] is the tuple <<w, b>>                                       *)

ServerTotal(ups) ==
    SumSeq([k \in 1..Len(ups) |-> ups[k].n_samples])

\* ServerBiasSum without the factor u['n_samples']
ServerBiasSumUnweighted(ups) ==
    SumSeq([k \in 1..Len(ups) |-> ups[k].weights[2]])

\* sum(u['weights'][0][i] * u['n_samples'] for u in ups), i 1-based here
ServerCoefSum(ups, i) ==
    SumSeq([k \in 1..Len(ups) |-> ups[k].weights[1][i] * ups[k].n_samples])

ServerBiasSum(ups) ==
    SumSeq([k \in 1..Len(ups) |-> ups[k].weights[2] * ups[k].n_samples])

server_federated_average(ups) ==
    IF ups = <<>> THEN Raise("IndexError")            \* ups[0]
    ELSE
    LET total == ServerTotal(ups)
        n     == Len(ups[1].weights[1])
        short(i) == \E k \in 1..Len(ups) : Len(ups[k].weights[1]) < i
    IN  IF n >= 1 /\ short(1) THEN Raise("IndexError")    \* u['weights'][0][0]
        ELSE IF total = 0 THEN Raise("ZeroDivisionError") \* ... / total
        ELSE IF short(n) THEN Raise("IndexError")         \* u['weights'][0][i]
        ELSE Return(<< [i \in 1..n |-> FDivInt(ServerCoefSum(ups, i), total)],
                        FDivInt(ServerBiasSum(ups), total) >>)

----------------------------------------------------------------------------
(* aggregate_weights.py: federated_average(node_weights)                   *)
(* node_weights: a dict, here its items in insertion order, each           *)
(* [node_id, weights, bias, n_samples] with distinct node_id               *)

\* HubTotal counting the first node only
HubTotalFirstOnly(node_weights) == node_weights[1].n_samples

\* sum(w['n_samples'] for w in node_weights.values())
HubTotal(node_weights) ==
    SumSeq([k \in 1..Len(node_weights) |-> node_weights[k].n_samples])

\* weight_factor with floor division (//) in place of true division
weight_factor_floordiv(entry, total_samples) ==
    (entry.n_samples \div total_samples) * Scale

\* weights['n_samples'] / total_samples
weight_factor(entry, total_samples) == IntDiv(entry.n_samples, total_samples)

\* numpy's in-place add accepts an operand of the result's shape or of shape (1,)
Broadcastable(entry, n_weights) ==
    Len(entry.weights) = n_weights \/ Len(entry.weights) = 1

\* HubTerm without the factor weight_factor
HubTermUnscaled(entry, j, total_samples) ==
    IF Len(entry.weights) = 1 THEN entry.weights[1] ELSE entry.weights[j]

\* (np.array(weights['weights']) * weight_factor)[j], broadcast to n_weights
HubTerm(entry, j, total_samples) ==
    FMul(IF Len(entry.weights) = 1 THEN entry.weights[1] ELSE entry.weights[j],
         weight_factor(entry, total_samples))

hub_federated_average(node_weights) ==
    IF node_weights = <<>> THEN ReturnNone
    ELSE
    LET total_samples == HubTotal(node_weights)
        n_weights     == Len(node_weights[1].weights)
        K             == Len(node_weights)
    IN  IF total_samples = 0 THEN Raise("ZeroDivisionError")
        ELSE IF \E k \in 1..K : ~Broadcastable(node_weights[k], n_weights)
             THEN Raise("ValueError")
        ELSE Return(
          [weights |-> [j \in 1..n_weights |->
                          SumSeq([k \in 1..K |-> HubTerm(node_weights[k], j, total_samples)])],
           bias |-> SumSeq([k \in 1..K |->
                          FMul(node_weights[k].bias, weight_factor(node_weights[k], total_samples))]),
           total_samples |-> total_samples,
           nodes_aggregated |-> [k \in 1..K |-> node_weights[k].node_id]])

----------------------------------------------------------------------------
(* demo_federated_learning.py: federated_average(updates)                  *)
(* updates: a list of tuples (w, b, n)                                     *)

DemoWidth == 5

demo_federated_average(ups) ==
    LET K     == Len(ups)
        total == SumSeq([k \in 1..K |-> ups[k][3]])
        short(i) == \E k \in 1..K : Len(ups[k][1]) < i
    IN  IF short(1) THEN Raise("IndexError")              \* w[0]
        ELSE IF total = 0 THEN Raise("ZeroDivisionError") \* ... / total
        ELSE IF short(DemoWidth) THEN Raise("IndexError") \* w[i]
        ELSE Return(
          << [i \in 1..DemoWidth |->
                FDivInt(SumSeq([k \in 1..K |-> ups[k][1][i] * ups[k][3]]), total)],
             FDivInt(SumSeq([k \in 1..K |-> ups[k][2] * ups[k][3]]), total) >>)

----------------------------------------------------------------------------
(* aggregate_weights.py: main()                                            *)

NODES == <<"us", "eu", "sg">>

NoDocument == [kind |-> "absent"]

\* What main() does with the weights it loaded: the outcome of the process and
\* the document it uploads to weights/global_model.json.  The upload is inside
\* try/except: when it raises (uploaded is false) nothing is written and main()
\* ends normally.
hub_main(node_weights, uploaded) ==
    IF node_weights = <<>> THEN [outcome |-> Raise("SystemExit"), saved |-> NoDocument]
    ELSE LET global_model == hub_federated_average(node_weights)
         IN  IF global_model.kind = "raise" \/ ~uploaded
             THEN [outcome |-> global_model, saved |-> NoDocument]
             ELSE [outcome |-> global_model,
                   saved   |-> [kind |-> "json", doc |-> global_model.value]]

----------------------------------------------------------------------------
(* One aggregator call on bounded inputs *)

MaxUpdates == 2

\* 0.5, 0.1 and -0.25 ...: coefficient vectors of width 5, 1 and 6
CoefPool ==
    { <<500, 0, 0, 0, 0>>, <<100, 0, 0, 0, 0>>, <<-250, 40, 0, 0, 7>>,
      <<100>>, <<100, 0, 0, 0, 0, 900>> }

BiasPool == {100, 300}

CountPool == {0, 300, 700}

Payloads == [w : CoefPool, b : BiasPool, n_samples : CountPool]

\* The nodes whose weights are present, at most most of them, in the order of NODES.
NodeSeqs(most) ==
    { ns \in UNION { [1..k -> 1..Len(NODES)] : k \in 0..most } :
        \A i \in 1..Len(ns) : \A j \in 1..Len(ns) : i < j => ns[i] < ns[j] }

\* The inputs of at most most updates.
AggInputs(most) ==
    UNION { { [i \in 1..Len(ns) |->
                 [node_id |-> NODES[ns[i]], w |-> p[i].w, b |-> p[i].b,
                  n_samples |-> p[i].n_samples]] : p \in [1..Len(ns) -> Payloads] }
            : ns \in NodeSeqs(most) }

\* The same updates in the layout each implementation reads.
AsNodeWeights(input) ==
    [k \in 1..Len(input) |->
        [node_id |-> input[k].node_id, weights |-> input[k].w,
         bias |-> input[k].b, n_samples |-> input[k].n_samples]]

AsServerUpdates(input) ==
    [k \in 1..Len(input) |->
        [node_id |-> input[k].node_id, weights |-> <<input[k].w, input[k].b>>,
         n_samples |-> input[k].n_samples, round |-> 1]]

AsDemoUpdates(input) ==
    [k \in 1..Len(input) |-> <<input[k].w, input[k].b, input[k].n_samples>>]

AggInit ==
    /\ aggInput \in AggInputs(MaxUpdates)
    /\ aggImpl = "none"
    /\ aggResult = NotCalled
    /\ aggSaved = NoDocument
    /\ TrainIdle
    /\ ProtoIdle

CallHubAverage ==
    /\ aggImpl = "none"
    /\ aggImpl' = "hub"
    /\ aggResult' = hub_federated_average(AsNodeWeights(aggInput))
    /\ UNCHANGED <<aggInput, aggSaved, trainVars, protoVars>>

CallServerAverage ==
    /\ aggImpl = "none"
    /\ aggImpl' = "server"
    /\ aggResult' = server_federated_average(AsServerUpdates(aggInput))
    /\ UNCHANGED <<aggInput, aggSaved, trainVars, protoVars>>

CallDemoAverage ==
    /\ aggImpl = "none"
    /\ aggImpl' = "demo"
    /\ aggResult' = demo_federated_average(AsDemoUpdates(aggInput))
    /\ UNCHANGED <<aggInput, aggSaved, trainVars, protoVars>>

RunHubMain(uploaded) ==
    /\ aggImpl = "none"
    /\ aggImpl' = "hub_main"
    /\ aggResult' = hub_main(AsNodeWeights(aggInput), uploaded).outcome
    /\ aggSaved' = hub_main(AsNodeWeights(aggInput), uploaded).saved
    /\ UNCHANGED <<aggInput, trainVars, protoVars>>

AggNext ==
    \/ CallHubAverage
    \/ CallServerAverage
    \/ CallDemoAverage
    \/ \E uploaded \in BOOLEAN : RunHubMain(uploaded)

AggSpec == AggInit /\ [][AggNext]_vars

----------------------------------------------------------------------------
(* client.py: train_local(weights, X, y, lr=0.01)                          *)

\* X[:100], y[:100]
BatchCap == 100

\* lr = 0.01
ClientLr == Scale \div 100

\* math.exp(t) raises OverflowError above ln(max double) = 709.78...
ExpMax == 709782

ExpOverflows(t) == t > ExpMax

\* 1 / (1 + math.exp(t)).  exp has no integer form: the logistic curve is
\* replaced by the piecewise-linear curve through (0, 1/2) with slope -1/4,
\* clamped to [0, 1]; like the original it is decreasing in t, 1/2 at 0, and
\* 0 and 1 at the far ends.
Logistic(t) == Max(0, Min(Scale, Scale \div 2 - RoundDiv(t, 4)))

\* s[:n] without the bound: the whole of s
TakeAll(s, n) == s

\* s[:n]
Take(s, n) == SubSeq(s, 1, Min(Len(s), n))

\* sum(xij * wj for xij, wj in zip(xi, w))
Dot(xi, w) == SumSeq([j \in 1..Min(Len(xi), Len(w)) |-> FMul(xi[j], w[j])])

\* ClientUpdate pairing w with xi[1:], which drops the last coefficient
ClientUpdateShifted(w, b, xi, step) ==
    Return(<< <<>> \o [j \in 1..(Min(Len(w), Len(xi)) - 1) |-> w[j] + FMul(step, xi[j + 1])],
              b + step >>)

\* w = [wj + lr * error * xij for wj, xij in zip(w, xi)]; b = b + lr * error,
\* with step = lr * error
ClientUpdate(w, b, xi, step) ==
    Return(<< <<>> \o [j \in 1..Min(Len(w), Len(xi)) |-> w[j] + FMul(step, xi[j])],
              b + step >>)

\* pred = 1 / (1 + math.exp(-sum(...) - b)); error = yi - pred
\* (t and lr * error are bound through singleton sets: each is computed once)
ClientGradient(w, b, xi, yi) ==
    CHOOSE r \in
        { IF ExpOverflows(t) THEN Raise("OverflowError")
          ELSE CHOOSE u \in { ClientUpdate(w, b, xi, step) :
                              step \in {FMul(ClientLr, yi * Scale - Logistic(t))} } : TRUE
          : t \in {-Dot(xi, w) - b} } : TRUE

\* One pass of the loop body for the row xi with label yi, from the outcome so far.
ClientStep(sofar, xi, yi) ==
    IF sofar.kind = "raise" THEN sofar
    ELSE ClientGradient(sofar.value[1], sofar.value[2], xi, yi)

\* for xi, yi in zip(rows, labels): the rows lo..hi in order.  The range is
\* halved and the outcome of the first half bound before the second runs, so
\* that the evaluation stays shallow and each row is visited once.
RECURSIVE ClientSteps(_, _, _, _, _)
ClientSteps(sofar, rows, labels, lo, hi) ==
    IF lo > hi THEN sofar
    ELSE IF lo = hi THEN ClientStep(sofar, rows[lo], labels[lo])
    ELSE CHOOSE r \in
           { ClientSteps(left, rows, labels, ((lo + hi) \div 2) + 1, hi) :
               left \in {ClientSteps(sofar, rows, labels, lo, (lo + hi) \div 2)} } : TRUE

\* The rows one call iterates over: zip(X[:100], y[:100])
ClientRowsUsed(rows, labels) == Min(Len(Take(rows, BatchCap)), Len(Take(labels, BatchCap)))

client_train_local(wts, rows, labels) ==
    LET w == IF wts # <<>> THEN wts[1] ELSE [j \in 1..5 |-> 0]
        b == IF Len(wts) > 1 THEN wts[2] ELSE 0
    IN  CHOOSE r \in { ClientSteps(start, rows, labels, 1, used) :
                          start \in {Return(<<w, b>>)},
                          used \in {ClientRowsUsed(rows, labels)} } : TRUE

----------------------------------------------------------------------------
(* demo_federated_learning.py: train_local(X, y, w, b, lr=0.1, epochs=1)    *)

\* X[:200], y[:200]
DemoCap == 200

\* lr = 0.1
DemoLr == Scale \div 10

\* max(-500, min(500, x))
SigmoidClamp(x) == Max(-500 * Scale, Min(500 * Scale, x))

\* sigmoid(x) = 1 / (1 + math.exp(-max(-500, min(500, x))))
sigmoid(x) == Logistic(-SigmoidClamp(x))

\* w = [wj + lr * error * xij for wj, xij in zip(w, xi)]; b = b + lr * error
DemoUpdate(w, b, xi, step) ==
    << <<>> \o [j \in 1..Min(Len(w), Len(xi)) |-> w[j] + FMul(step, xi[j])],
       b + step >>

\* pred = sigmoid(sum(...) + b); error = yi - pred
DemoGradient(w, b, xi, yi) ==
    CHOOSE u \in { DemoUpdate(w, b, xi, step) :
                     step \in {FMul(DemoLr, yi * Scale - sigmoid(Dot(xi, w) + b))} } : TRUE

\* for xi, yi in zip(rows, labels): the rows lo..hi in order, from <<w, b>> = sofar
RECURSIVE DemoSteps(_, _, _, _, _)
DemoSteps(sofar, rows, labels, lo, hi) ==
    IF lo > hi THEN sofar
    ELSE IF lo = hi THEN DemoGradient(sofar[1], sofar[2], rows[lo], labels[lo])
    ELSE CHOOSE r \in
           { DemoSteps(left, rows, labels, ((lo + hi) \div 2) + 1, hi) :
               left \in {DemoSteps(sofar, rows, labels, lo, (lo + hi) \div 2)} } : TRUE

\* The rows one call iterates over: zip(X[:200], y[:200])
DemoRowsUsed(rows, labels) == Min(Len(Take(rows, DemoCap)), Len(Take(labels, DemoCap)))

demo_train_local(rows, labels, w, b) ==
    Return(CHOOSE r \in { DemoSteps(<<w, b>>, rows, labels, 1, used) :
                            used \in {DemoRowsUsed(rows, labels)} } : TRUE)

----------------------------------------------------------------------------
(* train_node.py: train_model(data, node_id) and output_weights              *)

EPOCHS == 5

\* learning_rate = 0.01
NodeLr == Scale \div 100

\* The integer square root, by Newton's iteration from above.
RECURSIVE SqrtIter(_, _)
SqrtIter(v, r) ==
    LET nx == (r + v \div r) \div 2
    IN  IF nx >= r THEN r ELSE SqrtIter(v, nx)

\* The float square root of a fixed-point value.
FSqrt(v) == IF v <= 0 THEN 0 ELSE SqrtIter(v * Scale, v * Scale)

Column(rows, j) == [i \in 1..Len(rows) |-> rows[i][j]]

\* X.mean(axis=0)[j]
ColMean(rows, j) == RoundDiv(SumSeq(Column(rows, j)), Len(rows))

\* X.std(axis=0)[j]
ColStd(rows, j) ==
    LET mean == ColMean(rows, j)
    IN  FSqrt(RoundDiv(SumSeq([i \in 1..Len(rows) |->
                                 FMul(rows[i][j] - mean, rows[i][j] - mean)]),
                       Len(rows)))

\* X = (X - X.mean(axis=0)) / (X.std(axis=0) + 1e-8); 1e-8 is below the unit,
\* so a zero deviation stays zero and the divisor is at least one unit
Normalize(rows) ==
    LET mean == <<>> \o [j \in 1..Len(rows[1]) |-> ColMean(rows, j)]
        std  == <<>> \o [j \in 1..Len(rows[1]) |-> ColStd(rows, j)]
    IN  <<>> \o [i \in 1..Len(rows) |->
            <<>> \o [j \in 1..Len(rows[i]) |->
                LET d == rows[i][j] - mean[j]
                IN  IF d = 0 THEN 0 ELSE RoundDiv(d * Scale, Max(std[j], 1))]]

\* predictions = 1 / (1 + np.exp(-np.clip(z, -500, 500))), z = np.dot(X, weights) + bias
NodePredictions(Xn, w, b) ==
    <<>> \o [i \in 1..Len(Xn) |-> Logistic(-SigmoidClamp(Dot(Xn[i], w) + b))]

\* NodeError as y - predictions, the update still subtracting the gradient
NodeErrorFlipped(preds, labels) ==
    <<>> \o [i \in 1..Len(preds) |-> labels[i] * Scale - preds[i]]

\* error = predictions - y
NodeError(preds, labels) ==
    <<>> \o [i \in 1..Len(preds) |-> preds[i] - labels[i] * Scale]

\* np.log(p + 1e-8).  log has no integer form: it is replaced by its tangent at
\* 1, p - 1, which like the original is increasing in p and 0 at 1.
Ln(p) == p - Scale

\* loss = -np.mean(y * np.log(predictions + 1e-8) + (1 - y) * np.log(1 - predictions + 1e-8))
NodeLoss(preds, labels) ==
    -RoundDiv(SumSeq([i \in 1..Len(preds) |->
                        labels[i] * Ln(preds[i]) + (1 - labels[i]) * Ln(Scale - preds[i])]),
              Len(preds))

\* accuracy = np.mean((predictions > 0.5) == y)
NodeAccuracy(preds, labels) ==
    IntDiv(Cardinality({i \in 1..Len(preds) :
                          (IF 2 * preds[i] > Scale THEN 1 ELSE 0) = labels[i]}),
           Len(preds))

\* One epoch from the state st = [weights, bias, loss, accuracy].
NodeEpoch(st, Xn, labels) ==
    LET preds == NodePredictions(Xn, st.weights, st.bias)
        err   == NodeError(preds, labels)
        n     == Len(labels)
        weight_gradients ==
            [j \in 1..Len(st.weights) |->
                RoundDiv(SumSeq([i \in 1..n |-> FMul(Xn[i][j], err[i])]), n)]
        bias_gradient == RoundDiv(SumSeq(err), n)
    IN  [weights  |-> <<>> \o [j \in 1..Len(st.weights) |->
                           st.weights[j] - FMul(NodeLr, weight_gradients[j])],
         bias     |-> st.bias - FMul(NodeLr, bias_gradient),
         loss     |-> NodeLoss(preds, labels),
         accuracy |-> NodeAccuracy(preds, labels)]

\* for epoch in range(EPOCHS)
RECURSIVE NodeEpochs(_, _, _, _)
NodeEpochs(st, Xn, labels, left) ==
    IF left = 0 THEN st
    ELSE CHOOSE r \in { NodeEpochs(nx, Xn, labels, left - 1) :
                          nx \in {NodeEpoch(st, Xn, labels)} } : TRUE

\* train_model on a table of at least one row, every row 5 wide: the dictionary
\* it returns.
train_model(rows, labels) ==
    LET n_features == Len(rows[1])
        last == CHOOSE r \in { NodeEpochs([weights |-> [j \in 1..n_features |-> 0],
                                            bias |-> 0, loss |-> 0, accuracy |-> 0],
                                           Xn, labels, EPOCHS) :
                                Xn \in {Normalize(rows)} } : TRUE
    IN  [weights        |-> last.weights,
         bias           |-> last.bias,
         n_samples      |-> Len(labels),
         final_loss     |-> last.loss,
         final_accuracy |-> last.accuracy]

\* output_weights: the blob weights/{node_id.lower()}_weights.json, written
\* unless the upload raised (the exception is caught and the document printed).
output_weights(model_weights, node_id, uploaded) ==
    IF uploaded THEN [kind |-> "json", blob |-> node_id, doc |-> model_weights]
                ELSE [kind |-> "absent"]

----------------------------------------------------------------------------
(* One train_local call on bounded inputs *)

\* [w, b] as broadcast, after training, steep enough for math.exp to overflow,
\* of width 3, and the empty list
WeightPool ==
    { << <<10, 10, 10, 10, 10>>, 0 >>, << <<-250, 40, 0, 0, 7>>, 100 >>,
      << <<-12 * Scale, 0, 0, 0, 0>>, 0 >>, << <<10, 10, 10>>, 0 >>, <<>> }

\* [age, variant_brca1, variant_tp53, variant_apoe4, bmi], and rows of width 3 and 6
RowPool ==
    { <<62 * Scale, 1 * Scale, 0, 2 * Scale, 31 * Scale>>,
      <<35 * Scale, 0, 0, 0, 22 * Scale>>,
      <<62 * Scale, 1 * Scale, 0>>,
      <<35 * Scale, 0, 0, 0, 22 * Scale, 1 * Scale>> }

MaxRows == 2

\* Tables of at most most rows, with a label for every row or for all but the last.
TrainInputs(most) ==
    UNION { [wts : WeightPool, rows : [1..k -> RowPool], labels : [1..k -> {0, 1}]]
            \cup [wts : WeightPool, rows : [1..k -> RowPool],
                  labels : IF k = 0 THEN {<<>>} ELSE [1..(k - 1) -> {0, 1}]]
            : k \in 0..most }

\* Rows as the demo's load_data builds them: [age/100, variant_brca1,
\* variant_tp53, variant_apoe4, bmi/50]
DemoRowCase == <<(62 * Scale) \div 100, 1 * Scale, 0, 2 * Scale, (31 * Scale) \div 50>>

DemoRowControl == <<(35 * Scale) \div 100, 0, 0, 0, (22 * Scale) \div 50>>

DemoRowsOf(n) == [i \in 1..n |-> IF i % 2 = 1 THEN DemoRowCase ELSE DemoRowControl]

\* Tables of one row more than the batch cap of client.py and of the demo.
CapTrainInputs ==
    { [wts |-> << <<10, 10, 10, 10, 10>>, 0 >>, rows |-> DemoRowsOf(k),
       labels |-> [i \in 1..k |-> i % 2]]
      : k \in {BatchCap + 1, DemoCap + 1} }

TrainInit ==
    /\ trainInput \in TrainInputs(MaxRows) \cup CapTrainInputs
    /\ trainImpl = "none"
    /\ trainResult = NotCalled
    /\ trainUploaded = NoDocument
    /\ AggIdle
    /\ ProtoIdle

\* CallClientTrain updating the list weights in place (w[j] += ..., weights[1] = b)
CallClientTrainInPlace ==
    /\ trainImpl = "none"
    /\ trainImpl' = "client"
    /\ trainResult' = client_train_local(trainInput.wts, trainInput.rows, trainInput.labels)
    /\ trainInput' = IF trainResult'.kind = "return"
                     THEN [trainInput EXCEPT !.wts = trainResult'.value]
                     ELSE trainInput
    /\ UNCHANGED <<trainUploaded, aggVars, protoVars>>

CallClientTrain ==
    /\ trainImpl = "none"
    /\ trainImpl' = "client"
    /\ trainResult' = client_train_local(trainInput.wts, trainInput.rows, trainInput.labels)
    /\ UNCHANGED <<trainInput, trainUploaded, aggVars, protoVars>>

\* The demo passes w and b as two arguments: the list [w, b] is never empty.
CallDemoTrain ==
    /\ trainImpl = "none"
    /\ trainInput.wts # <<>>
    /\ trainImpl' = "demo"
    /\ trainResult' = demo_train_local(trainInput.rows, trainInput.labels,
                                        trainInput.wts[1], trainInput.wts[2])
    /\ UNCHANGED <<trainInput, trainUploaded, aggVars, protoVars>>

\* The tables train_node.py can load: a DataFrame of 5 feature columns and the
\* label column, here of at least one row.
IsDataFrame(rows, labels) ==
    /\ Len(rows) >= 1
    /\ Len(labels) = Len(rows)
    /\ \A i \in 1..Len(rows) : Len(rows[i]) = 5

\* train_node.py main(): train_model, then output_weights for NODE_ID = node_id
RunTrainNode(node_id, uploaded) ==
    /\ trainImpl = "none"
    /\ IsDataFrame(trainInput.rows, trainInput.labels)
    /\ trainImpl' = "node"
    /\ LET model_weights == train_model(trainInput.rows, trainInput.labels)
       IN  /\ trainResult' = Return(model_weights)
           /\ trainUploaded' = output_weights(model_weights, node_id, uploaded)
    /\ UNCHANGED <<trainInput, aggVars, protoVars>>

TrainNext ==
    \/ CallClientTrain
    \/ CallDemoTrain
    \/ \E node_id \in {"us", "eu"} : \E uploaded \in BOOLEAN :
          RunTrainNode(node_id, uploaded)

TrainSpec == TrainInit /\ [][TrainNext]_vars

----------------------------------------------------------------------------
(* Messages: json.dumps / base64.b64encode(pickle.dumps(.)) and back        *)

\* base64.b64encode(pickle.dumps(v)).decode('utf-8')
EncodeWeights(v) == [b64 |-> [pickle |-> v]]

\* pickle.loads(base64.b64decode(s))
DecodeWeights(s) == s.b64.pickle

----------------------------------------------------------------------------
(* The session: server.py main() and one client.py main() per node          *)

NUM_NODES == 2

NUM_ROUNDS == 3

NodeIds == <<"US", "EU", "SG">>

\* The nodes that run client.py, one NODE_ID each.
Nodes == {NodeIds[i] : i \in 1..NUM_NODES}

\* weights = [[0.01, 0.01, 0.01, 0.01, 0.01], 0.0]
InitialWeights == << [j \in 1..5 |-> Scale \div 100], 0 >>

\* Rows as load_local_data builds them: [age, variant_brca1, variant_tp53,
\* variant_apoe4, bmi], with the label diagnosis_cancer.
RowCase == <<62 * Scale, 1 * Scale, 0, 2 * Scale, 31 * Scale>>

RowControl == <<35 * Scale, 0, 0, 0, 22 * Scale>>

RowsOf(n) == [i \in 1..n |-> IF i % 2 = 1 THEN RowCase ELSE RowControl]

LabelsOf(n) == [i \in 1..n |-> i % 2]

\* Local tables of US and EU: empty, of one row or of two rows.
TableSizes == { <<0, 0>>, <<2, 2>>, <<0, 2>>, <<1, 2>> }

\* A local table of one row more than the batch cap.
CapTableSizes == { <<BatchCap + 1, 2>> }

\* The table size of node n under the choice sz.
SizeAt(sz, n) == sz[CHOOSE i \in 1..NUM_NODES : NodeIds[i] = n]

MaxRedeliver == 1

InitWith(sizes) ==
    /\ AggIdle
    /\ TrainIdle
    /\ phase = "INIT"
    /\ round_num = 0
    /\ weights = InitialWeights
    /\ updates = <<>>
    /\ error = "none"
    /\ aggregations = 0
    /\ discarded = 0
    /\ subNode = [n \in Nodes |-> {}]
    /\ subHub = {}
    /\ redeliveries = 0
    /\ \E sz \in sizes :
          /\ X = [n \in Nodes |-> RowsOf(SizeAt(sz, n))]
          /\ y = [n \in Nodes |-> LabelsOf(SizeAt(sz, n))]
    /\ listening = [n \in Nodes |-> TRUE]
    /\ attempts = [n \in Nodes |-> [r \in 1..NUM_ROUNDS |-> [trained |-> 0, sent |-> 0]]]

\* NextRound stepping by two
NextRoundSkipping(r) == r + 2

Init == InitWith(TableSizes)

\* range(1, NUM_ROUNDS + 1): the value after r
NextRound(r) == r + 1

\* for round_num in range(1, NUM_ROUNDS + 1): the first iteration, or none
EnterLoop ==
    /\ phase = "INIT"
    /\ IF NUM_ROUNDS >= 1
       THEN phase' = "BROADCASTING" /\ round_num' = 1
       ELSE phase' = "DONE" /\ UNCHANGED round_num
    /\ UNCHANGED <<weights, updates, error, aggregations, discarded>>
    /\ UNCHANGED <<aggVars, trainVars, subNode, subHub, redeliveries, clientVars>>

\* Broadcast publishing the initial model in place of the current global weights
BroadcastInitialWeights ==
    /\ phase = "BROADCASTING"
    /\ LET msg == [round |-> round_num, weights |-> EncodeWeights(InitialWeights)]
       IN  subNode' = [n \in Nodes |-> subNode[n] \cup {msg}]
    /\ updates' = <<>>
    /\ phase' = IF 0 < NUM_NODES THEN "COLLECTING" ELSE "AGGREGATING"
    /\ UNCHANGED <<round_num, weights, error, aggregations, discarded>>
    /\ UNCHANGED <<aggVars, trainVars, subHub, redeliveries, clientVars>>

\* Broadcast going on to line 54 without the collect loop
BroadcastSkippingCollect ==
    /\ phase = "BROADCASTING"
    /\ LET msg == [round |-> round_num, weights |-> EncodeWeights(weights)]
       IN  subNode' = [n \in Nodes |-> subNode[n] \cup {msg}]
    /\ updates' = <<>>
    /\ phase' = "AGGREGATING"
    /\ UNCHANGED <<round_num, weights, error, aggregations, discarded>>
    /\ UNCHANGED <<aggVars, trainVars, subHub, redeliveries, clientVars>>

\* publisher.publish(broadcast_topic, ...): one copy per node subscription; updates = []
Broadcast ==
    /\ phase = "BROADCASTING"
    /\ LET msg == [round |-> round_num, weights |-> EncodeWeights(weights)]
       IN  subNode' = [n \in Nodes |-> subNode[n] \cup {msg}]
    /\ updates' = <<>>
    /\ phase' = IF 0 < NUM_NODES THEN "COLLECTING" ELSE "AGGREGATING"
    /\ UNCHANGED <<round_num, weights, error, aggregations, discarded>>
    /\ UNCHANGED <<aggVars, trainVars, subHub, redeliveries, clientVars>>

\* Collected without the comparison of data['round'] with round_num
CollectedAnyRound(ups, data) ==
    Append(ups, [data EXCEPT !.weights = DecodeWeights(data.weights)])

\* What the for loop over response.received_messages appends for one message.
Collected(ups, data) ==
    IF data.round = round_num
    THEN Append(ups, [data EXCEPT !.weights = DecodeWeights(data.weights)])
    ELSE ups

\* Pull storing the pulled update's weights as the global weights
PullOverwriting(msg, again) ==
    /\ phase = "COLLECTING"
    /\ msg \in subHub
    /\ updates' = Collected(updates, msg)
    /\ weights' = DecodeWeights(msg.weights)
    /\ discarded' = IF updates' = updates THEN discarded + 1 ELSE discarded
    /\ IF again
       THEN redeliveries < MaxRedeliver /\ redeliveries' = redeliveries + 1
            /\ UNCHANGED subHub
       ELSE subHub' = subHub \ {msg} /\ UNCHANGED redeliveries
    /\ phase' = IF Len(updates') < NUM_NODES THEN "COLLECTING" ELSE "AGGREGATING"
    /\ UNCHANGED <<round_num, error, aggregations>>
    /\ UNCHANGED <<aggVars, trainVars, subNode, clientVars>>

\* subscriber.pull returned msg; it is appended if of this round, and acknowledged.
\* Pub/Sub delivers at least once: with again, msg stays outstanding.
Pull(msg, again) ==
    /\ phase = "COLLECTING"
    /\ msg \in subHub
    /\ updates' = Collected(updates, msg)
    /\ discarded' = IF updates' = updates THEN discarded + 1 ELSE discarded
    /\ IF again
       THEN redeliveries < MaxRedeliver /\ redeliveries' = redeliveries + 1
            /\ UNCHANGED subHub
       ELSE subHub' = subHub \ {msg} /\ UNCHANGED redeliveries
    /\ phase' = IF Len(updates') < NUM_NODES THEN "COLLECTING" ELSE "AGGREGATING"
    /\ UNCHANGED <<round_num, weights, error, aggregations>>
    /\ UNCHANGED <<aggVars, trainVars, subNode, clientVars>>

\* PullDeadline with the error caught and the loop left: the updates collected
\* so far go on to be aggregated
PullDeadlineCaught ==
    /\ phase = "COLLECTING"
    /\ subHub = {}
    /\ phase' = "AGGREGATING"
    /\ error' = "DeadlineExceeded"
    /\ UNCHANGED <<round_num, weights, updates, aggregations, discarded>>
    /\ UNCHANGED <<aggVars, trainVars, subNode, subHub, redeliveries, clientVars>>

\* subscriber.pull(..., timeout=60) with nothing to deliver: the deadline passes
\* and DeadlineExceeded leaves main() uncaught.
PullDeadline ==
    /\ phase = "COLLECTING"
    /\ subHub = {}
    /\ phase' = "FAILED"
    /\ error' = "DeadlineExceeded"
    /\ UNCHANGED <<round_num, weights, updates, aggregations, discarded>>
    /\ UNCHANGED <<aggVars, trainVars, subNode, subHub, redeliveries, clientVars>>

\* weights = federated_average(updates), then the next iteration or the end
Aggregate ==
    /\ phase = "AGGREGATING"
    /\ LET r == server_federated_average(updates)
       IN  IF r.kind = "raise"
           THEN /\ phase' = "FAILED"
                /\ error' = r.exc
                /\ UNCHANGED <<round_num, weights, aggregations>>
           ELSE /\ weights' = r.value
                /\ aggregations' = aggregations + 1
                /\ IF round_num < NUM_ROUNDS
                   THEN phase' = "BROADCASTING" /\ round_num' = NextRound(round_num)
                   ELSE phase' = "DONE" /\ UNCHANGED round_num
                /\ UNCHANGED error
    /\ UNCHANGED <<updates, discarded>>
    /\ UNCHANGED <<aggVars, trainVars, subNode, subHub, redeliveries, clientVars>>

\* UpdateFor reporting the rows of all nodes together
UpdateForPooled(n, data, new_weights) ==
    [node_id |-> n, weights |-> EncodeWeights(new_weights),
     n_samples |-> SumSeq([i \in 1..NUM_NODES |-> Len(X[NodeIds[i]])]),
     round |-> data.round]

\* UpdateFor tagging the update with the round after the broadcast's
UpdateForNextRound(n, data, new_weights) ==
    [node_id |-> n, weights |-> EncodeWeights(new_weights),
     n_samples |-> Len(X[n]), round |-> data.round + 1]

\* The update callback(message) publishes for the broadcast data.
UpdateFor(n, data, new_weights) ==
    [node_id |-> n, weights |-> EncodeWeights(new_weights),
     n_samples |-> Len(X[n]), round |-> data.round]

\* client.py callback(message) on node n: train, publish the update, ack.
\* An exception in train_local leaves the message unacknowledged.
Callback(n, data, again) ==
    /\ listening[n]
    /\ data \in subNode[n]
    /\ LET r == client_train_local(DecodeWeights(data.weights), X[n], y[n])
       IN  IF r.kind = "raise"
           THEN /\ ~again /\ UNCHANGED <<subHub, subNode, redeliveries>>
                /\ attempts' = [attempts EXCEPT ![n][data.round].trained =
                                    Min(@ + 1, MaxRedeliver + 1)]
           ELSE /\ subHub' = subHub \cup {UpdateFor(n, data, r.value)}
                /\ attempts' = [attempts EXCEPT ![n][data.round] =
                                    [trained |-> @.trained + 1, sent |-> @.sent + 1]]
                /\ IF again
                   THEN redeliveries < MaxRedeliver /\ redeliveries' = redeliveries + 1
                        /\ UNCHANGED subNode
                   ELSE subNode' = [subNode EXCEPT ![n] = @ \ {data}]
                        /\ UNCHANGED redeliveries
    /\ UNCHANGED <<aggVars, trainVars, serverVars, X, y, listening>>

\* streaming_pull_future.result(timeout=300) timed out: cancel, client finished
ClientTimeout(n) ==
    /\ listening[n]
    /\ listening' = [listening EXCEPT ![n] = FALSE]
    /\ UNCHANGED <<X, y, attempts>>
    /\ UNCHANGED <<aggVars, trainVars, serverVars, subNode, subHub, redeliveries>>

ServerNext ==
    \/ EnterLoop
    \/ Broadcast
    \/ \E msg \in subHub : \E again \in BOOLEAN : Pull(msg, again)
    \/ PullDeadline
    \/ Aggregate

ClientNext(n) ==
    \/ \E data \in subNode[n] : \E again \in BOOLEAN : Callback(n, data, again)
    \/ ClientTimeout(n)

Next == ServerNext \/ \E n \in Nodes : ClientNext(n)

Spec == Init /\ [][Next]_vars

\* The scheduling the session relies on: main() of server.py keeps running, and
\* each node's subscription keeps delivering its outstanding broadcasts to a
\* listening client.
Fairness ==
    /\ WF_vars(ServerNext)
    /\ \A n \in Nodes : WF_vars(\E data \in subNode[n] : Callback(n, data, FALSE))

FairSpec == Spec /\ Fairness

\* The sessions in which a local table exceeds the batch cap.
CapInit == InitWith(CapTableSizes)

CapSpec == CapInit /\ [][Next]_vars

----------------------------------------------------------------------------
(* Claims about the aggregators (AggSpec) *)

Uniform(input) ==
    \A i \in 1..Len(input) : \A j \in 1..Len(input) : Len(input[i].w) = Len(input[j].w)

PositiveCounts(input) == \A i \in 1..Len(input) : input[i].n_samples > 0

TotalSamples(input) == SumSeq([k \in 1..Len(input) |-> input[k].n_samples])

\* sum_i(w_i[j] * n_i) / sum_i(n_i), rounded to the unit
WeightedCoef(input, j) ==
    RoundDiv(SumSeq([k \in 1..Len(input) |-> input[k].w[j] * input[k].n_samples]),
             TotalSamples(input))

WeightedBias(input) ==
    RoundDiv(SumSeq([k \in 1..Len(input) |-> input[k].b * input[k].n_samples]),
             TotalSamples(input))

ResultCoefs == IF aggImpl \in {"hub", "hub_main"} THEN aggResult.value.weights
                                                 ELSE aggResult.value[1]

ResultBias == IF aggImpl \in {"hub", "hub_main"} THEN aggResult.value.bias
                                                ELSE aggResult.value[2]

\* Rounding allowance, in units of 1/Scale: server.py divides one exact sum;
\* so does the demo; aggregate_weights.py rounds one factor and one product per
\* update.
Tolerance == IF aggImpl \in {"server", "demo"} THEN 0 ELSE Len(aggInput)

\* US: 700 samples, w = [0.5,0,0,0,0], b = 0.1; EU: 300 samples, w = [0.1,0,0,0,0], b = 0.3
ScenarioInput ==
    << [node_id |-> "us", w |-> <<500, 0, 0, 0, 0>>, b |-> 100, n_samples |-> 700],
       [node_id |-> "eu", w |-> <<100, 0, 0, 0, 0>>, b |-> 300, n_samples |-> 300] >>

\* C1: for a non-empty set of updates with positive sample counts and coefficient
\* vectors of one length, federated_average (aggregate_weights.py, server.py)
\* returns w'_j = sum_i(w_i[j] n_i) / sum_i(n_i) for every j and
\* b' = sum_i(b_i n_i) / sum_i(n_i), within rounding; US (700, [0.5,0,0,0,0], 0.1)
\* and EU (300, [0.1,0,0,0,0], 0.3) aggregate to [0.38,0,0,0,0], 0.16.
C1_WeightedAverage ==
    (/\ aggImpl \in {"hub", "server"}
     /\ aggInput # <<>> /\ PositiveCounts(aggInput) /\ Uniform(aggInput))
    => /\ aggResult.kind = "return"
       /\ Len(ResultCoefs) = Len(aggInput[1].w)
       /\ \A j \in 1..Len(aggInput[1].w) :
              Abs(ResultCoefs[j] - WeightedCoef(aggInput, j)) <= Tolerance
       /\ Abs(ResultBias - WeightedBias(aggInput)) <= Tolerance
       /\ aggInput = ScenarioInput =>
              ResultCoefs = <<380, 0, 0, 0, 0>> /\ ResultBias = 160

C1_Witness ==
    /\ aggImpl = "hub"
    /\ aggInput = ScenarioInput
    /\ aggResult.kind = "return"
    /\ aggResult.value.weights = <<380, 0, 0, 0, 0>>
    /\ aggResult.value.bias = 160

\* C6: federated_average on zero updates fails with an error; it returns no zero,
\* None or undefined model, and no global model is written.
C6_ZeroUpdatesFail ==
    (aggImpl # "none" /\ aggInput = <<>>)
    => aggResult.kind = "raise" /\ aggSaved = NoDocument

\* C7: federated_average (server.py, demo) on updates whose coefficient vectors do
\* not all have one length fails, whichever update is the longer; it returns no
\* aggregate.
C7_MismatchFails ==
    (aggImpl \in {"server", "demo"} /\ ~Uniform(aggInput))
    => aggResult.kind = "raise"

\* C11: federated_average (aggregate_weights.py, server.py) on exactly one update
\* with n_samples > 0 returns that update's coefficient vector and bias unchanged.
C11_SingleUpdateIdentity ==
    (/\ aggImpl \in {"hub", "server"}
     /\ Len(aggInput) = 1 /\ PositiveCounts(aggInput))
    => /\ aggResult.kind = "return"
       /\ ResultCoefs = aggInput[1].w
       /\ ResultBias = aggInput[1].b

C11_Witness ==
    /\ aggImpl = "server"
    /\ Len(aggInput) = 1
    /\ aggInput[1].n_samples = 300
    /\ aggInput[1].w = <<-250, 40, 0, 0, 7>>
    /\ aggResult = Return(<< <<-250, 40, 0, 0, 7>>, aggInput[1].b >>)

EqualCounts(input) ==
    \A i \in 1..Len(input) : input[i].n_samples = input[1].n_samples

\* (sum_i w_i[j]) / k, rounded to the unit
MeanCoef(input, j) ==
    RoundDiv(SumSeq([k \in 1..Len(input) |-> input[k].w[j]]), Len(input))

MeanBias(input) ==
    RoundDiv(SumSeq([k \in 1..Len(input) |-> input[k].b]), Len(input))

\* The coefficient vectors an implementation is written for: of one length, and
\* for the demo of the feature width 5 it iterates over.
WidthsFit ==
    /\ Uniform(aggInput)
    /\ aggImpl = "demo" => Len(aggInput[1].w) = DemoWidth

\* C12: when all updates carry the same positive sample count, federated_average
\* (aggregate_weights.py, demo) returns the unweighted arithmetic mean of the
\* updates' coefficients and of their biases, within rounding.
C12_EqualCountsMean ==
    (/\ aggImpl \in {"hub", "demo"}
     /\ aggInput # <<>> /\ PositiveCounts(aggInput) /\ EqualCounts(aggInput)
     /\ WidthsFit)
    => /\ aggResult.kind = "return"
       /\ Len(ResultCoefs) = Len(aggInput[1].w)
       /\ \A j \in 1..Len(aggInput[1].w) :
              Abs(ResultCoefs[j] - MeanCoef(aggInput, j)) <= Tolerance
       /\ Abs(ResultBias - MeanBias(aggInput)) <= Tolerance

C12_Witness ==
    /\ aggImpl = "demo"
    /\ Len(aggInput) = 2
    /\ aggInput[1].n_samples = 300 /\ aggInput[2].n_samples = 300
    /\ aggInput[1].w = <<500, 0, 0, 0, 0>> /\ aggInput[2].w = <<100, 0, 0, 0, 0>>
    /\ aggInput[1].b = 100 /\ aggInput[2].b = 300
    /\ aggResult = Return(<< <<300, 0, 0, 0, 0>>, 200 >>)

\* The global model a run of aggregate_weights.py produced: the dictionary
\* federated_average returned, or the document main() uploaded.
Exported ==
    IF aggImpl = "hub_main" /\ aggSaved.kind = "json" THEN {aggSaved.doc}
    ELSE IF aggImpl = "hub" /\ aggResult.kind = "return" THEN {aggResult.value}
    ELSE {}

\* C17: the exported global model has the fields weights, bias, total_samples and
\* nodes_aggregated; total_samples is the sum of n_samples over the aggregated
\* updates, and nodes_aggregated lists exactly the nodes whose weights were
\* loaded and aggregated, each once.
C17_ExportFields ==
    \A doc \in Exported :
        /\ DOMAIN doc = {"weights", "bias", "total_samples", "nodes_aggregated"}
        /\ doc.total_samples = TotalSamples(aggInput)
        /\ Len(doc.nodes_aggregated) = Len(aggInput)
        /\ \A k \in 1..Len(aggInput) : doc.nodes_aggregated[k] = aggInput[k].node_id
        /\ \A i \in 1..Len(NODES) :
              (\E k \in 1..Len(doc.nodes_aggregated) : doc.nodes_aggregated[k] = NODES[i])
              <=> (\E k \in 1..Len(aggInput) : aggInput[k].node_id = NODES[i])

C17_Witness ==
    /\ aggImpl = "hub_main"
    /\ aggSaved.kind = "json"
    /\ Len(aggInput) = 2
    /\ aggInput[1].node_id = "us" /\ aggInput[1].n_samples = 700
    /\ aggInput[2].node_id = "sg" /\ aggInput[2].n_samples = 300
    /\ aggSaved.doc.total_samples = 1000
    /\ aggSaved.doc.nodes_aggregated = <<"us", "sg">>

\* The outcome of each implementation on the input, as <<coefficients, bias>>.
OutcomeOf(impl, input) ==
    IF impl = "hub"
    THEN LET r == hub_federated_average(AsNodeWeights(input))
         IN  IF r.kind = "return" THEN Return(<<r.value.weights, r.value.bias>>) ELSE r
    ELSE IF impl = "server" THEN server_federated_average(AsServerUpdates(input))
    ELSE demo_federated_average(AsDemoUpdates(input))

\* The outcome of the call that ran, in the same form.
ThisOutcome ==
    IF aggImpl = "hub" /\ aggResult.kind = "return"
    THEN Return(<<aggResult.value.weights, aggResult.value.bias>>)
    ELSE aggResult

\* Two outcomes agree: both fail, or both return coefficient vectors of one
\* length and a bias that differ by rounding at most (one unit per update).
Agree(r1, r2, units) ==
    \/ r1.kind # "return" /\ r2.kind # "return"
    \/ /\ r1.kind = "return" /\ r2.kind = "return"
       /\ Len(r1.value[1]) = Len(r2.value[1])
       /\ \A j \in 1..Len(r1.value[1]) : Abs(r1.value[1][j] - r2.value[1][j]) <= units
       /\ Abs(r1.value[2] - r2.value[2]) <= units

\* C30: the federated_average of aggregate_weights.py, of server.py and of the
\* demo return the same coefficients and bias for the same updates, for every
\* uniform coefficient-vector length and every number of updates >= 1.
C30_AggregatorsAgree ==
    (/\ aggImpl \in {"hub", "server", "demo"}
     /\ aggInput # <<>> /\ Uniform(aggInput))
    => \A other \in {"hub", "server", "demo"} :
           Agree(ThisOutcome, OutcomeOf(other, aggInput), Len(aggInput))

----------------------------------------------------------------------------
(* Claims about the trainers (TrainSpec) *)

\* The coefficient vector a call starts from.
StartCoefs == IF trainInput.wts # <<>> THEN trainInput.wts[1] ELSE [j \in 1..5 |-> 0]

StartBias == IF Len(trainInput.wts) > 1 THEN trainInput.wts[2] ELSE 0

\* The number of rows the call iterates over.
RowsUsed ==
    IF trainImpl = "demo" THEN DemoRowsUsed(trainInput.rows, trainInput.labels)
                          ELSE ClientRowsUsed(trainInput.rows, trainInput.labels)

\* C13: train_local (client.py, demo) on an empty feature or label set fails; it
\* does not return the weights it was given as if training had succeeded.
C13_EmptyInputFails ==
    (/\ trainImpl \in {"client", "demo"}
     /\ (trainInput.rows = <<>> \/ trainInput.labels = <<>>))
    => trainResult.kind = "raise"

\* C14: train_local (client.py, demo) on a feature row whose width differs from
\* the length of the coefficient vector fails; it does not train on the common
\* prefix.
C14_WidthMismatchFails ==
    (/\ trainImpl \in {"client", "demo"}
     /\ \E i \in 1..RowsUsed : Len(trainInput.rows[i]) # Len(StartCoefs))
    => trainResult.kind = "raise"

\* C24: a call of train_local (client.py, demo) leaves the rows X, the labels y
\* and the weights passed in as they were; its only effect is the value it
\* returns.
C24_TrainerLeavesInputs ==
    [][ trainImpl' \in {"client", "demo"} =>
            /\ trainInput' = trainInput
            /\ UNCHANGED <<trainUploaded, aggVars, protoVars>> ]_vars

C24_Witness ==
    /\ trainImpl = "client"
    /\ trainResult.kind = "return"
    /\ Len(trainInput.rows) = 2 /\ Len(trainInput.labels) = 2
    /\ trainInput.wts = << <<10, 10, 10, 10, 10>>, 0 >>
    /\ trainResult.value # trainInput.wts

Sgn(a) == IF a > 0 THEN 1 ELSE IF a < 0 THEN -1 ELSE 0

\* The learning rate of the call site.
LrOf(impl) == IF impl = "demo" THEN DemoLr ELSE IF impl = "node" THEN NodeLr ELSE ClientLr

\* The call was one step of train_local: one row used, as wide as the weights.
OneStep ==
    /\ trainImpl \in {"client", "demo"}
    /\ trainResult.kind = "return"
    /\ RowsUsed = 1
    /\ Len(trainInput.rows[1]) = Len(StartCoefs)

\* y - p for that step, p the prediction from the weights passed in.
StepError ==
    trainInput.labels[1] * Scale
      - Logistic(-SigmoidClamp(Dot(trainInput.rows[1], StartCoefs) + StartBias))

\* One epoch with error = y - p and w_j += lr * mean(error * x_j), b += lr * mean(error).
SpecEpoch(st, Xn, labels) ==
    LET n == Len(labels)
        err == [i \in 1..n |->
                  labels[i] * Scale - Logistic(-SigmoidClamp(Dot(Xn[i], st[1]) + st[2]))]
    IN  << <<>> \o [j \in 1..Len(st[1]) |->
                  st[1][j] + FMul(NodeLr, RoundDiv(SumSeq([i \in 1..n |-> FMul(Xn[i][j], err[i])]), n))],
           st[2] + FMul(NodeLr, RoundDiv(SumSeq(err), n)) >>

RECURSIVE SpecEpochs(_, _, _, _)
SpecEpochs(st, Xn, labels, left) ==
    IF left = 0 THEN st
    ELSE CHOOSE r \in { SpecEpochs(nx, Xn, labels, left - 1) :
                          nx \in {SpecEpoch(st, Xn, labels)} } : TRUE

\* C25: client.train_local, the demo's train_local and train_node.train_model
\* use one sign convention: a step moves every coefficient w_j in the direction
\* of (y - p) * x_j and the bias in the direction of (y - p), by the learning
\* rate times that quantity.
C25_SignConvention ==
    /\ OneStep =>
          /\ trainResult.value[2] - StartBias = FMul(LrOf(trainImpl), StepError)
          /\ Sgn(trainResult.value[2] - StartBias) \in {0, Sgn(StepError)}
          /\ \A j \in 1..Len(StartCoefs) :
                /\ trainResult.value[1][j] - StartCoefs[j]
                      = FMul(FMul(LrOf(trainImpl), StepError), trainInput.rows[1][j])
                /\ Sgn(trainResult.value[1][j] - StartCoefs[j])
                      \in {0, Sgn(StepError) * Sgn(trainInput.rows[1][j])}
    /\ trainImpl = "node" =>
          << trainResult.value.weights, trainResult.value.bias >>
            = SpecEpochs(<< [j \in 1..5 |-> 0], 0 >>, Normalize(trainInput.rows),
                         trainInput.labels, EPOCHS)

C25_Witness ==
    /\ trainImpl = "node"
    /\ Len(trainInput.rows) = 2
    /\ trainInput.rows[1] # trainInput.rows[2]
    /\ trainInput.labels = <<1, 0>>
    /\ \E j \in 1..5 : trainResult.value.weights[j] # 0

\* The batch cap of the call site.
CapOf(impl) == IF impl = "demo" THEN DemoCap ELSE BatchCap

\* train_local of the call site impl from the weights wts on the rows and labels given.
TrainedFrom(impl, wts, rows, labels) ==
    IF impl = "demo"
    THEN demo_train_local(rows, labels, wts[1], wts[2])
    ELSE client_train_local(wts, rows, labels)

\* The row i alone, then the row k alone from the outcome of the first.
OneThenOther(impl, i, k) ==
    LET first == TrainedFrom(impl, trainInput.wts,
                             <<trainInput.rows[i]>>, <<trainInput.labels[i]>>)
    IN  IF first.kind = "raise" THEN first
        ELSE TrainedFrom(impl, first.value, <<trainInput.rows[k]>>, <<trainInput.labels[k]>>)

\* C26: when the table has more rows than the batch cap (100 in client.py, 200
\* in the demo), train_local uses exactly the leading cap rows, in their order:
\* it returns what it returns on those rows alone, and on two rows it returns
\* the step for the second row applied to the outcome of the step for the first.
C26_LeadingRowsOnly ==
    /\ (/\ trainImpl \in {"client", "demo"}
        /\ Len(trainInput.rows) > CapOf(trainImpl))
       => /\ RowsUsed = CapOf(trainImpl)
          /\ trainResult = TrainedFrom(trainImpl, trainInput.wts,
                                        SubSeq(trainInput.rows, 1, CapOf(trainImpl)),
                                        SubSeq(trainInput.labels, 1, CapOf(trainImpl)))
    /\ (/\ trainImpl \in {"client", "demo"}
        /\ Len(trainInput.rows) = 2 /\ Len(trainInput.labels) = 2)
       => trainResult = OneThenOther(trainImpl, 1, 2)

C26_Witness ==
    /\ trainImpl = "demo"
    /\ Len(trainInput.rows) = DemoCap + 1
    /\ trainResult.kind = "return"
    /\ trainResult.value # <<trainInput.wts[1], trainInput.wts[2]>>

\* C28: every sigmoid evaluation of local training (client.py, demo,
\* train_node.py) restricts z to [-500, 500] before exponentiation: no weights
\* and rows, however large z, make the call fail with an overflow.
C28_SigmoidClamped ==
    trainImpl \in {"client", "demo", "node"} =>
        ~(trainResult.kind = "raise" /\ trainResult.exc = "OverflowError")

\* The coefficient vector v is none of the feature rows and not the label column.
NoLocalData(v, rows, labels) ==
    /\ \A i \in 1..Len(rows) : v # rows[i]
    /\ labels # <<>> => v # labels

\* C15: no message from a node to the hub, the pub/sub update or the uploaded
\* weights document, contains a feature row or a label of the node's data: its
\* content is limited to node id, round, model weights (coefficients and bias)
\* and sample count.
C15_OnlyWeightsCross ==
    /\ \A m \in subHub :
          /\ DOMAIN m \subseteq {"node_id", "round", "weights", "n_samples"}
          /\ NoLocalData(DecodeWeights(m.weights)[1], X[m.node_id], y[m.node_id])
    /\ trainUploaded.kind = "json" =>
          /\ DOMAIN trainUploaded.doc
                \subseteq {"node_id", "round", "weights", "bias", "n_samples"}
          /\ NoLocalData(trainUploaded.doc.weights, trainInput.rows, trainInput.labels)

----------------------------------------------------------------------------
(* Claims about the session (Spec, FairSpec) *)

CollectedNodes == {updates[i].node_id : i \in 1..Len(updates)}

\* C2: whenever the coordinator aggregates for round r and replaces the global
\* model, the collected updates are exactly one update from each of the N nodes.
C2_OneUpdatePerNode ==
    phase = "AGGREGATING" => Len(updates) = NUM_NODES /\ CollectedNodes = Nodes

\* C3: while the coordinator collects (and then aggregates) for round r, the
\* collected set holds no update whose round tag differs from r: such an update is
\* discarded on receipt.
C3_StaleDiscarded ==
    phase \in {"COLLECTING", "AGGREGATING"} =>
        \A i \in 1..Len(updates) : updates[i].round = round_num

C3_Witness ==
    /\ phase = "DONE"
    /\ discarded >= 1
    /\ aggregations = NUM_ROUNDS

\* C4: the round number is 1 at the first broadcast, grows by exactly 1 with each
\* broadcast/collect/aggregate cycle, and the last round executed is NUM_ROUNDS.
C4_RoundCounting ==
    /\ phase \in {"BROADCASTING", "COLLECTING", "AGGREGATING"} =>
           round_num = aggregations + 1 /\ round_num <= NUM_ROUNDS
    /\ phase = "DONE" => round_num = NUM_ROUNDS /\ aggregations = NUM_ROUNDS
    /\ \A n \in Nodes : \A data \in subNode[n] : data.round \in 1..round_num

C4_Witness ==
    /\ phase = "DONE"
    /\ round_num = NUM_ROUNDS
    /\ aggregations = NUM_ROUNDS

\* C5: if every broadcast is delivered to every node in time and every node
\* returns its update (no client stops listening, no pull deadline passes), the
\* coordinator eventually reaches DONE, having aggregated NUM_ROUNDS times.
C5_EventuallyDone ==
    <>(\/ phase = "DONE" /\ aggregations = NUM_ROUNDS
       \/ \E n \in Nodes : ~listening[n]
       \/ error = "DeadlineExceeded")

AllWeightVectors ==
    {weights[1]}
    \cup {updates[i].weights[1] : i \in 1..Len(updates)}
    \cup {DecodeWeights(m.weights)[1] : m \in subHub}
    \cup UNION {{DecodeWeights(m.weights)[1] : m \in subNode[n]} : n \in Nodes}

\* C8: throughout a session the global model's coefficient vector, and that of
\* every broadcast and update, has the length it had at the start, the
\* feature-vector width 5.
C8_WidthFixed ==
    \A w \in AllWeightVectors : Len(w) = Len(InitialWeights[1]) /\ Len(w) = 5

C8_Witness ==
    /\ phase = "DONE"
    /\ aggregations = NUM_ROUNDS
    /\ weights # InitialWeights
    /\ Len(weights[1]) = 5

\* C9: when the pull deadline passes with fewer than N updates collected, the
\* session ends with that error: the partial set is not aggregated, the global
\* model stays as it was, and main() takes no further step.
C9_TimeoutIsFatal ==
    /\ [](error = "DeadlineExceeded" =>
            phase = "FAILED" /\ Len(updates) < NUM_NODES
            /\ aggregations = round_num - 1)
    /\ [][phase = "FAILED" => serverVars' = serverVars]_vars

C9_Witness ==
    /\ error = "DeadlineExceeded"
    /\ phase = "FAILED"
    /\ Len(updates) = 1
    /\ round_num = 2

\* The order of the coordinator's phases; an exception leaves main() from the
\* collect loop or from federated_average.
PhaseSteps ==
    { <<"INIT", "BROADCASTING">>, <<"BROADCASTING", "COLLECTING">>,
      <<"COLLECTING", "AGGREGATING">>, <<"AGGREGATING", "BROADCASTING">>,
      <<"AGGREGATING", "DONE">>,
      <<"COLLECTING", "FAILED">>, <<"AGGREGATING", "FAILED">> }

\* This step publishes a broadcast.
BroadcastStep == \E n \in Nodes : subNode'[n] \ subNode[n] # {}

\* This step replaces the global model by an aggregate.
AggregateStep == aggregations' # aggregations

\* C18: the coordinator's phases follow INIT -> BROADCASTING -> COLLECTING ->
\* AGGREGATING -> (BROADCASTING or DONE): round r + 1 is broadcast only once
\* round r has been aggregated, a round is aggregated only after its updates
\* were collected, and after DONE nothing is broadcast or aggregated.
C18_PhaseOrder ==
    [][ /\ phase' # phase => <<phase, phase'>> \in PhaseSteps
        /\ BroadcastStep =>
              /\ phase = "BROADCASTING" /\ phase' = "COLLECTING"
              /\ aggregations = round_num - 1
        /\ AggregateStep =>
              /\ phase = "AGGREGATING"
              /\ aggregations' = round_num
              /\ Len(updates) = NUM_NODES
              /\ \A i \in 1..Len(updates) : updates[i].round = round_num
        /\ phase = "DONE" => serverVars' = serverVars /\ ~BroadcastStep
      ]_vars

C18_Witness ==
    /\ phase = "BROADCASTING"
    /\ round_num = 2
    /\ aggregations = 1
    /\ \A n \in Nodes : \A data \in subNode[n] : data.round = 1

\* C19: in each round r the coordinator broadcasts to every node, tagged with r,
\* the current global weights, which are those of the aggregation of round
\* r - 1 (the initial model when r = 1), and it does so before it collects any
\* update for round r.
C19_BroadcastContents ==
    /\ [](phase = "BROADCASTING" =>
            /\ aggregations = round_num - 1
            /\ round_num = 1 => weights = InitialWeights
            /\ \A m \in subHub : m.round < round_num)
    /\ [][ /\ BroadcastStep =>
                /\ \A n \in Nodes :
                      subNode'[n] = subNode[n] \cup
                          {[round |-> round_num, weights |-> EncodeWeights(weights)]}
                /\ updates' = <<>>
           /\ weights' # weights => AggregateStep
         ]_vars

C19_Witness ==
    /\ phase = "COLLECTING"
    /\ round_num = 2
    /\ weights # InitialWeights
    /\ updates = <<>>
    /\ \A n \in Nodes :
          [round |-> 2, weights |-> EncodeWeights(weights)] \in subNode[n]

\* The update matches the broadcast data received by node n: same round tag, and
\* the weights train_local returns when started from the broadcast's weights.
Answers(m, n, data) ==
    /\ m.node_id = n
    /\ m.round = data.round
    /\ LET r == client_train_local(DecodeWeights(data.weights), X[n], y[n])
       IN  r.kind = "return" /\ DecodeWeights(m.weights) = r.value

\* C20: every Weight Update a node publishes carries the round number of the
\* broadcast it was computed in response to, and its weights are the result of
\* local training started from exactly that broadcast's weights.
C20_UpdateAnswersBroadcast ==
    [][ \A m \in subHub' \ subHub :
            \E n \in Nodes : \E data \in subNode[n] : Answers(m, n, data) ]_vars

C20_Witness ==
    \E m \in subHub :
        /\ m.round = 2
        /\ m.node_id = "EU"
        /\ \E data \in subNode["EU"] : data.round = 2 /\ Answers(m, "EU", data)
        /\ DecodeWeights(m.weights) # weights

\* The updates of a round in which every node trains once from the global
\* weights w and the coordinator collects one update from each.
ReferenceUpdates(w) ==
    [i \in 1..NUM_NODES |->
        [node_id |-> NodeIds[i],
         weights |-> client_train_local(w, X[NodeIds[i]], y[NodeIds[i]]).value,
         n_samples |-> Len(X[NodeIds[i]]),
         round |-> 0]]

\* The global weights after r such rounds from the initial model.
RECURSIVE ReferenceWeights(_)
ReferenceWeights(r) ==
    IF r = 0 THEN InitialWeights
    ELSE CHOOSE g \in { server_federated_average(ReferenceUpdates(w)).value :
                          w \in {ReferenceWeights(r - 1)} } : TRUE

\* C16: a session of NUM_ROUNDS rounds from the initial global weights and the
\* nodes' local data ends with final global weights that those alone determine,
\* whatever the order in which messages arrive within each round.
C16_FinalWeightsDetermined ==
    phase = "DONE" => weights = ReferenceWeights(NUM_ROUNDS)

\* C21: for every node and every round r, train_local is called at most once
\* and at most one Weight Update tagged (node, r) is published.
C21_AtMostOnceTraining ==
    \A n \in Nodes : \A r \in 1..NUM_ROUNDS :
        attempts[n][r].trained <= 1 /\ attempts[n][r].sent <= 1

\* C22: the global weights are changed only by the aggregation step, which sets
\* them to federated_average of the collected updates; broadcasting, collecting
\* and every node's local training leave them unchanged.
C22_OnlyAggregationWrites ==
    [][ weights' # weights =>
            /\ phase = "AGGREGATING"
            /\ aggregations' = aggregations + 1
            /\ weights' = server_federated_average(updates).value
            /\ UNCHANGED <<subNode, subHub, attempts>> ]_vars

C22_Witness ==
    /\ phase = "COLLECTING"
    /\ round_num = 2
    /\ Len(updates) = 1
    /\ weights # InitialWeights
    /\ attempts["US"][2].trained = 1 /\ attempts["EU"][2].trained = 1
    /\ updates[1].weights # weights

\* What node n publishes for the broadcast of the weights w tagged r, as a
\* function of w, r and the node's own table alone.
OwnUpdate(n, r, w) ==
    [node_id |-> n,
     weights |-> EncodeWeights(client_train_local(w, X[n], y[n]).value),
     n_samples |-> Len(X[n]),
     round |-> r]

\* C23: within a round, each node's Weight Update is determined by the broadcast
\* global weights and that node's own local data: whichever order the nodes
\* train in, and whatever the other nodes hold or have sent, it is the same.
C23_UpdatesIndependent ==
    phase \in {"COLLECTING", "AGGREGATING"} =>
        \A m \in subHub :
            m.round = round_num => m = OwnUpdate(m.node_id, round_num, weights)

C23_Witness ==
    /\ phase = "COLLECTING"
    /\ round_num = 2
    /\ Len(X["US"]) # Len(X["EU"])
    /\ OwnUpdate("US", 2, weights) \in subHub
    /\ OwnUpdate("EU", 2, weights) \in subHub
    /\ OwnUpdate("US", 2, weights).weights # OwnUpdate("EU", 2, weights).weights

\* The round just aggregated replaced the global model: main() stands after line 54
\* and updates still holds what was aggregated.
RoundCommitted == aggregations >= 1 /\ phase \in {"BROADCASTING", "DONE"}

\* C27: a local-trainer or aggregator error is never passed over: an error of
\* federated_average ends the session with the global model as it was, and a
\* round in which a node's training input was invalid (an empty feature/label
\* set) is not committed to the global model.
C27_ErrorsAbortRound ==
    /\ error # "none" => phase = "FAILED" /\ aggregations = round_num - 1
    /\ RoundCommitted =>
          \A i \in 1..Len(updates) : X[updates[i].node_id] # <<>>

\* C29: whenever the coordinator calls federated_average on the collected
\* updates, the sum of their n_samples is positive: the weighted average never
\* divides by zero, also when every node's local table is empty.
C29_TotalSamplesPositive ==
    /\ phase = "AGGREGATING" => ServerTotal(updates) > 0
    /\ error # "ZeroDivisionError"

\* C10: n_samples of every update a node submits is the number of local rows the
\* training of that round used.
C10_SamplesAreRowsUsed ==
    \A m \in subHub : m.n_samples = ClientRowsUsed(X[m.node_id], y[m.node_id])

====
